---- MODULE Spec2Model ----
(***************************************************************************)
(* Teams AI bot: the FastAPI service (app.py), the bot orchestrator        *)
(* (bot.py) and the settings (config.py) as a state machine.               *)
(*                                                                         *)
(* Every inbound HTTP request is one asyncio task.  A task runs its        *)
(* handler without interruption up to the next network await (the chat     *)
(* completion, the token endpoint, the reply connector, the framework      *)
(* pipeline); each action below is one such uninterrupted stretch.  The    *)
(* only shared mutable state is the module-level token cache of bot.py.    *)
(***************************************************************************)
EXTENDS Integers, Sequences, FiniteSets, TLC

\* ------------------------------------------------------------------ bounds
\* How many times the clock may advance, and how many requests may arrive.
MaxTicks == 2
MaxRequests == 2

\* ------------------------------------------------------- program constants
SafetyMargin == 60
DefaultExpiresIn == 3600

\* Python's None / JSON null, and a key that a JSON object does not carry.
None == "None"
Absent == "<absent>"

\* The concurrently running request tasks.
Tasks == {"task1", "task2"}

\* dict.get(key, default) on a parsed JSON object: the default is used only
\* when the key is missing, a null value is returned as None.
Get(v, default) == IF v = Absent THEN default ELSE v

\* Python truthiness of a str-or-None value.
Truthy(v) == v \notin {None, "", Absent}

\* str.strip() on a text given as a sequence of characters.
RECURSIVE LStrip(_)
LStrip(s) == IF s # <<>> /\ Head(s) = " " THEN LStrip(Tail(s)) ELSE s

RECURSIVE RStrip(_)
RStrip(s) ==
    IF s # <<>> /\ s[Len(s)] = " " THEN RStrip(SubSeq(s, 1, Len(s) - 1)) ELSE s

\* Mutant of Strip: only the leading blanks are removed.
Strip_leftOnly(s) == LStrip(s)

Strip(s) == RStrip(LStrip(s))

\* ------------------------------------------------------------------ inputs
\* The environment settings the process may be started with (config.py).
Settings ==
    [DEVELOPMENT_MODE : BOOLEAN, TEAMS_REPLY_ENABLED : BOOLEAN,
     APP_ID : {"", "app-id"}, APP_PASSWORD : {"", "secret"}]

\* An environment variable: unset, or set to a text given as a sequence of
\* characters.
EnvVar(set, value) == [set |-> set, value |-> value]
Unset == EnvVar(FALSE, <<>>)
Text(s) == EnvVar(TRUE, s)

\* The texts DEVELOPMENT_MODE and TEAMS_REPLY_ENABLED are tried with.
FlagTexts ==
    { <<"t", "r", "u", "e">>, <<"T", "R", "U", "E">>, <<"T", "r", "u", "e">>,
      <<"f", "a", "l", "s", "e">>, <<"1">>, <<"y", "e", "s">>, <<>>,
      <<"t", "r", "u", "e", " ">> }

\* os.environ when the process starts (after load_dotenv).
Environments ==
    [DEVELOPMENT_MODE : {Unset} \cup {Text(s) : s \in FlagTexts},
     TEAMS_REPLY_ENABLED : {Unset} \cup {Text(s) : s \in FlagTexts},
     BOT_ID : {Absent, "app-id"}, BOT_PASSWORD : {Absent, "secret"},
     OPENAI_API_KEY : {Absent, "sk-key"}]

\* The environments the running service is explored with: one for each
\* value of the settings.
ServiceEnvironments ==
    [DEVELOPMENT_MODE : {Text(<<"t", "r", "u", "e">>), Text(<<"f", "a", "l", "s", "e">>)},
     TEAMS_REPLY_ENABLED : {Text(<<"t", "r", "u", "e">>), Text(<<"f", "a", "l", "s", "e">>)},
     BOT_ID : {"", "app-id"}, BOT_PASSWORD : {"", "secret"},
     OPENAI_API_KEY : {"sk-key"}]

\* str.lower() on the letters of the texts above.
LowerChar(c) ==
    CASE c = "T" -> "t" [] c = "R" -> "r" [] c = "U" -> "u" [] c = "E" -> "e"
      [] OTHER -> c

Lower(s) == [i \in 1..Len(s) |-> LowerChar(s[i])]

\* Mutant of EnvFlag: the text is compared as it is written.
EnvFlag_caseSensitive(var, default) ==
    (IF var.set THEN var.value ELSE default) = <<"t", "r", "u", "e">>

\* config.py 19 and 22: os.environ.get(name, default).lower() == "true".
EnvFlag(var, default) ==
    Lower(IF var.set THEN var.value ELSE default) = <<"t", "r", "u", "e">>

\* config.py 12-29: the class attributes, from the environment.
LoadConfig(e) ==
    [DEVELOPMENT_MODE |-> EnvFlag(e.DEVELOPMENT_MODE, <<"t", "r", "u", "e">>),
     TEAMS_REPLY_ENABLED |-> EnvFlag(e.TEAMS_REPLY_ENABLED, <<"f", "a", "l", "s", "e">>),
     APP_ID |-> Get(e.BOT_ID, ""), APP_PASSWORD |-> Get(e.BOT_PASSWORD, "")]

\* Mutant of ConfigFails: a missing key is replaced by an empty one.
ConfigFails_never(e) == FALSE

\* config.py 28: os.environ["OPENAI_API_KEY"] raises KeyError when unset.
ConfigFails(e) == e.OPENAI_API_KEY = Absent

\* The settings before config.py has run.
Unconfigured ==
    [DEVELOPMENT_MODE |-> FALSE, TEAMS_REPLY_ENABLED |-> FALSE,
     APP_ID |-> "", APP_PASSWORD |-> ""]

\* A request body.  kind "malformed": request.json() raises; "nonobject":
\* valid JSON that is no object (body.get raises); "object": a JSON object
\* with the fields the handlers read.  conversation is Absent, None (JSON
\* null) or the value of conversation.id.
Body(kind, type, text, conversation, id, serviceUrl, message) ==
    [kind |-> kind, type |-> type, text |-> text, conversation |-> conversation,
     id |-> id, serviceUrl |-> serviceUrl, message |-> message]

Activity(type, text, conversation, id, serviceUrl) ==
    Body("object", type, text, conversation, id, serviceUrl, Absent)

MalformedBody == Body("malformed", Absent, Absent, Absent, Absent, Absent, Absent)
NonObjectBody == Body("nonobject", Absent, Absent, Absent, Absent, Absent, Absent)

\* Bodies posted to /api/messages.
WebhookBodies ==
    { Activity("message", "hello", "c1", "a1", "https://x/"),
      Activity("message", "hello", "c1", Absent, "https://x/"),
      Activity("message", "hello", "c1", "a1", Absent),
      Activity("message", "hello", "c1", "", "https://x/"),
      Activity("message", "hello", None, "a1", "https://x/"),
      Activity("message", "", "c1", "a1", "https://x/"),
      Activity("message", Absent, "c1", "a1", "https://x/"),
      Activity("conversationUpdate", Absent, "c1", "a1", "https://x/"),
      Activity(Absent, "hello", "c1", "a1", "https://x/"),
      MalformedBody, NonObjectBody }

\* Bodies posted to /api/test.
TestBodies ==
    { Body("object", Absent, Absent, Absent, Absent, Absent, m) :
        m \in {"hello", "", Absent, None} }
    \cup {MalformedBody, NonObjectBody}

\* What the chat completion call does: it returns a completion whose first
\* choice has the given content, or it raises with the given text.  The test
\* endpoint is also tried with a completion that is blank.
ModelOutcomes ==
    { [kind |-> "ok", content |-> <<" ", "h", "i", " ">>],
      [kind |-> "raise", content |-> <<"timeout">>] }

TestModelOutcomes == ModelOutcomes \cup { [kind |-> "ok", content |-> <<" ">>] }

\* What the token endpoint does: a status with the JSON body's access_token
\* and expires_in (expires_in is a number when present), or the transport
\* raises.  expires_in.present = FALSE is a body without the key.
Tokens == {"tokenA", "tokenB"}
ExpiresIn(present, value) == [present |-> present, value |-> value]
NoExpiresIn == ExpiresIn(FALSE, 0)

TokenOutcomes ==
    { [kind |-> "status", status |-> 200, access_token |-> a, expires_in |-> e] :
        a \in Tokens \cup {Absent},
        e \in {NoExpiresIn, ExpiresIn(TRUE, SafetyMargin)} }
    \cup { [kind |-> "status", status |-> 500, access_token |-> Absent,
            expires_in |-> NoExpiresIn],
           [kind |-> "raise", status |-> 0, access_token |-> Absent,
            expires_in |-> NoExpiresIn] }

\* What the reply connector does: an HTTP status, or the transport raises.
ReplyOutcomes ==
    { [kind |-> "status", status |-> s] : s \in {200, 201, 401, 500} }
    \cup { [kind |-> "raise", status |-> 0] }

\* What bot_app.process does in production mode.
FrameworkOutcomes == {"response", None, "raise"}

\* How far the clock may jump between two steps.
TickSteps == {SafetyMargin, DefaultExpiresIn - SafetyMargin}

\* ------------------------------------------------------------------- state
VARIABLES
    env,                 \* os.environ when the process starts
    phase,               \* startup: "starting", "configured", "imported",
                         \* "listening", or "failed"
    config,              \* config.py: the Config class attributes
    bot_app,             \* bot.py: the framework application, None in development mode
    handlers,            \* bot.py: the hooks registered on the application
    _bot_access_token,   \* bot.py: the cached bearer token, None when absent
    _token_expires_at,   \* bot.py: the cached absolute expiry, 0 when cleared
    now,                 \* time.time()
    ticks,               \* how often the clock advanced
    requests,            \* how many requests arrived
    pc,                  \* per task: the await it is suspended at
    req,                 \* per task: the endpoint and body of its request
    loc,                 \* per task: the locals of the handlers it is in
    cnt,                 \* per task: the outbound calls its request issued
    resp,                \* per task: the HTTP response it produced
    stored,              \* history: the 200 token response the cache was last
                         \* filled from and the current_time of the call
                         \* that stored it; NoStore when the cache is empty
    cleared              \* history: whether a 401 emptied the cache and no
                         \* call or store has touched the cache since:
                         \* "no", or "live" / "stale" when the rejected token
                         \* was / was not the unexpired cached one

vars ==
    <<env, phase, config, bot_app, handlers, _bot_access_token,
      _token_expires_at, now, ticks, requests, pc, req, loc, cnt, resp, stored, cleared>>

NoRequest == [endpoint |-> "none", body |-> MalformedBody]

NoPost == [url |-> <<>>, authorization |-> None, type |-> None, text |-> <<>>,
           replyToId |-> None, from_id |-> None]

\* The JSON body of a 200 answer of the token endpoint; status 0: none yet.
TokenResponse(status, access_token, expires_in) ==
    [status |-> status, access_token |-> access_token, expires_in |-> expires_in]

NoTokenResponse == TokenResponse(0, Absent, NoExpiresIn)

NoStore == [response |-> NoTokenResponse, current_time |-> 0]

NoResult ==
    [bot_response |-> <<>>, reply_sent |-> FALSE, reply_attempted |-> FALSE,
     error |-> <<>>, returned |-> FALSE]

\* The locals of one request.  model, completion, token_source, reply,
\* framework and after_clear record what the external calls did and what the
\* history variable was when the token was asked for, for the properties
\* below; res is what process_fastapi_request returned, "none" before.
NoLocals ==
    [user_message |-> None, conversation_id |-> None, activity_id |-> None,
     service_url |-> None, bot_response |-> <<>>, model |-> "none",
     completion |-> <<>>,
     current_time |-> 0, access_token |-> None, token_source |-> "none",
     post |-> NoPost, reply |-> [kind |-> "none", status |-> 0],
     framework |-> "none", res |-> "none", after_clear |-> "no",
     result |-> NoResult]

NoCalls == [model |-> 0, token |-> 0, post |-> 0, writes |-> 0, framework |-> 0]

\* The fields of the /health report that depend on the settings.
NoHealth ==
    [development_mode |-> FALSE, teams_reply_enabled |-> FALSE,
     bot_credentials_configured |-> FALSE, teams_reply |-> None,
     authentication |-> None]

NoResponse ==
    [code |-> 0, status |-> None, mode |-> None, user_message |-> None,
     bot_response |-> <<>>, reply_sent |-> FALSE, activity_type |-> None,
     error |-> None, health |-> NoHealth]

\* What one uninterrupted stretch of a task leaves behind.
Step(p, l, c, r, token, expires_at) ==
    [pc |-> p, loc |-> l, cnt |-> c, resp |-> r, token |-> token,
     expires_at |-> expires_at]

\* The task t takes the step n; the settings and the clock stay.
Take(t, n) ==
    /\ pc' = [pc EXCEPT ![t] = n.pc]
    /\ loc' = [loc EXCEPT ![t] = n.loc]
    /\ cnt' = [cnt EXCEPT ![t] = n.cnt]
    /\ resp' = [resp EXCEPT ![t] = n.resp]
    /\ _bot_access_token' = n.token
    /\ _token_expires_at' = n.expires_at
    /\ cleared' =
         IF n.cnt.writes > cnt[t].writes
         THEN IF pc[t] # "str_post" THEN "no"
              ELSE IF loc[t].access_token = _bot_access_token /\ now < _token_expires_at
              THEN "live" ELSE "stale"
         ELSE IF pc[t] = "htm_model" /\ n.pc \in {"gbat_post", "str_post"} THEN "no"
         ELSE cleared
    /\ UNCHANGED <<env, phase, config, bot_app, handlers, now, ticks>>

\* bot.py 97-114: the application is built in production mode only.
BuildApplication(cfg) == IF cfg.DEVELOPMENT_MODE THEN None ELSE "Application"

\* bot.py 320-338: the error and feedback hooks are registered on the
\* application in production mode only.
RegisterHandlers(cfg, app) ==
    IF ~cfg.DEVELOPMENT_MODE /\ app # None THEN {"on_error", "feedback_loop"} ELSE {}

Init ==
    /\ config \in Settings
    /\ env \in ServiceEnvironments
    /\ config = LoadConfig(env)
    /\ phase = "listening"
    /\ bot_app = BuildApplication(config)
    /\ handlers = RegisterHandlers(config, bot_app)
    /\ _bot_access_token = None
    /\ _token_expires_at = 0
    /\ now = 0
    /\ ticks = 0
    /\ requests = 0
    /\ pc = [t \in Tasks |-> "idle"]
    /\ req = [t \in Tasks |-> NoRequest]
    /\ loc = [t \in Tasks |-> NoLocals]
    /\ cnt = [t \in Tasks |-> NoCalls]
    /\ resp = [t \in Tasks |-> NoResponse]
    /\ stored = NoStore
    /\ cleared = "no"

\* ------------------------------------------------ bot.py: the token cache
\* Mutants of CacheValid: the comparison with the expiry turned around, and
\* the expiry instant itself counted as still valid.
CacheValid_flipped(token, expires_at, current_time) ==
    Truthy(token) /\ current_time > expires_at

CacheValid_inclusive(token, expires_at, current_time) ==
    Truthy(token) /\ current_time <= expires_at

\* A further mutant of CacheValid: the expiry is not looked at.
CacheValid_tokenOnly(token, expires_at, current_time) == Truthy(token)

\* bot.py 34: the cached token is used while it is truthy and not expired.
CacheValid(token, expires_at, current_time) ==
    Truthy(token) /\ current_time < expires_at

\* Mutant of CredentialsConfigured: one credential is taken to be enough.
CredentialsConfigured_either(cfg) == Truthy(cfg.APP_ID) \/ Truthy(cfg.APP_PASSWORD)

\* bot.py 42: both credentials are needed to ask for a token.
CredentialsConfigured(cfg) == Truthy(cfg.APP_ID) /\ Truthy(cfg.APP_PASSWORD)

\* Mutant of TokenExpiresAt: the safety margin is not taken off.
TokenExpiresAt_noMargin(current_time, expires_in) ==
    current_time + (IF expires_in.present THEN expires_in.value ELSE DefaultExpiresIn)

\* bot.py 60-61: the absolute expiry stored with a fetched token.
TokenExpiresAt(current_time, expires_in) ==
    current_time
      + (IF expires_in.present THEN expires_in.value ELSE DefaultExpiresIn)
      - SafetyMargin

\* bot.py 59: token_response.get("access_token").
ResponseToken(access_token) == Get(access_token, None)

\* --------------------------------------------- bot.py: the reply connector
\* Mutant of ReplyUrl: the two ids change places.
ReplyUrl_swapped(service_url, conversation_id, activity_id) ==
    <<service_url, "v3/conversations/", activity_id, "/activities/", conversation_id>>

\* bot.py 175: the reply endpoint, as the pieces the f-string joins.
ReplyUrl(service_url, conversation_id, activity_id) ==
    <<service_url, "v3/conversations/", conversation_id, "/activities/", activity_id>>

\* bot.py 182: app_id or config.APP_ID or "bot-dev" (app_id is never passed).
ReplyFromId(cfg) == IF Truthy(cfg.APP_ID) THEN cfg.APP_ID ELSE "bot-dev"

\* Mutant of Authorization: the header is never set.
Authorization_dropped(access_token) == None

\* bot.py 198-199: the Authorization header, None when it is not sent.
Authorization(access_token) == IF Truthy(access_token) THEN access_token ELSE None

\* Mutant of ReplySucceeded: every status but a server error counts.
ReplySucceeded_not500(status) == status # 500

\* bot.py 208: the statuses that count as delivered.
ReplySucceeded(status) == status = 200 \/ status = 201

\* Mutant of ShouldClearToken: the wrong status code is tested.
ShouldClearToken_403(status, access_token) == status = 403 /\ Truthy(access_token)

\* Mutant of ShouldClearToken: a 401 clears the cache whether or not the
\* POST carried a token.
ShouldClearToken_unauthenticated(status, access_token) == status = 401

\* bot.py 216: when a failed delivery clears the token cache.
ShouldClearToken(status, access_token) == status = 401 /\ Truthy(access_token)

\* Mutant of ShouldSendReply: the setting is not looked at.
ShouldSendReply_ignoresFlag(cfg, service_url, conversation_id, activity_id) ==
    Truthy(service_url) /\ Truthy(conversation_id) /\ Truthy(activity_id)

\* bot.py 281-282: whether handle_teams_message delivers the reply.
ShouldSendReply(cfg, service_url, conversation_id, activity_id) ==
    /\ cfg.TEAMS_REPLY_ENABLED
    /\ Truthy(service_url) /\ Truthy(conversation_id) /\ Truthy(activity_id)

\* bot.py 191-207: the reply POST goes out, with the token when there is one.
send_teams_reply_post(l, c, access_token, source, token, expires_at, cfg) ==
    Step("str_post",
         [l EXCEPT !.access_token = access_token, !.token_source = source,
                   !.current_time = 0,
                   !.post = [url |-> ReplyUrl(l.service_url, l.conversation_id,
                                              l.activity_id),
                             authorization |-> Authorization(access_token),
                             type |-> "message",
                             text |-> l.bot_response,
                             replyToId |-> l.activity_id,
                             from_id |-> ReplyFromId(cfg)]],
         [c EXCEPT !.post = @ + 1], NoResponse, token, expires_at)

\* bot.py 171-189 and 26-55: send_teams_reply builds the reply and calls
\* get_bot_access_token, which answers from the cache, gives up without
\* credentials, or posts to the token endpoint and awaits the response.
send_teams_reply_start(l, c, token, expires_at, cfg, current_time) ==
    IF CacheValid(token, expires_at, current_time)
    THEN send_teams_reply_post(l, c, token, "cache", token, expires_at, cfg)
    ELSE IF ~CredentialsConfigured(cfg)
    THEN send_teams_reply_post(l, c, None, "nocreds", token, expires_at, cfg)
    ELSE Step("gbat_post", [l EXCEPT !.current_time = current_time],
              [c EXCEPT !.token = @ + 1], NoResponse, token, expires_at)

\* ----------------------------------------------- app.py: the HTTP responses
Response(code, status, mode, user_message, bot_response, reply_sent, type, error) ==
    [code |-> code, status |-> status, mode |-> mode, user_message |-> user_message,
     bot_response |-> bot_response, reply_sent |-> reply_sent,
     activity_type |-> type, error |-> error, health |-> NoHealth]

\* Mutant of CredentialsReported: one credential is reported as enough.
CredentialsReported_either(cfg) == Truthy(cfg.APP_ID) \/ Truthy(cfg.APP_PASSWORD)

\* app.py 130: bool(Config.APP_ID and Config.APP_PASSWORD).
CredentialsReported(cfg) == Truthy(cfg.APP_ID) /\ Truthy(cfg.APP_PASSWORD)

\* app.py 122-142: the /health report.
HealthReport(cfg) ==
    [development_mode |-> cfg.DEVELOPMENT_MODE,
     teams_reply_enabled |-> cfg.TEAMS_REPLY_ENABLED,
     bot_credentials_configured |-> CredentialsReported(cfg),
     teams_reply |-> IF cfg.TEAMS_REPLY_ENABLED THEN "enabled"
                     ELSE "disabled (console only)",
     authentication |-> IF ~cfg.DEVELOPMENT_MODE THEN "enabled"
                        ELSE "disabled (dev mode)"]

HealthResponse(cfg) ==
    [Response(200, "healthy", None, None, <<>>, FALSE, None, None)
       EXCEPT !.health = HealthReport(cfg)]

\* Mutant of IsUserMessage: the text is not looked at.
IsUserMessage_typeOnly(body) == body.type = "message"

\* app.py 46: a user utterance is a message activity with a truthy text.
IsUserMessage(body) == body.type = "message" /\ Truthy(body.text)

\* app.py 52-59: the development-mode answer built from the handler's result.
MessageProcessed(user_message, result) ==
    Response(200, "processed", "development_teams_direct", user_message,
             result.bot_response, result.reply_sent, None, None)

\* app.py 63-67: the acknowledgement of a system activity.
MessageAcknowledged(body) ==
    Response(200, "ok", "development_teams_system", None, <<>>, FALSE,
             Get(body.type, "unknown"), None)

\* Mutant of MessageError: the error body goes out with the default status.
MessageError_200(text) == Response(200, "error", None, None, <<>>, FALSE, None, text)

\* app.py 69-74: a route-level exception in development mode.
MessageError(text) == Response(500, "error", None, None, <<>>, FALSE, None, text)

\* Mutant of ProductionResponse: the result is not looked at.
ProductionResponse_always(res) ==
    Response(200, "processed", None, None, <<>>, FALSE, None, None)

\* app.py 80-83: the production-mode answer.
ProductionResponse(res) ==
    IF res # None
    THEN Response(200, "processed", None, None, <<>>, FALSE, None, None)
    ELSE Response(200, "ok", None, None, <<>>, FALSE, None, None)

\* Mutant of MessageMissing: only a null message is refused.
MessageMissing_nullOnly(user_message) == user_message = None

\* app.py 93-97: the test endpoint refuses a falsy message.
MessageMissing(user_message) == ~Truthy(user_message)

TestBadRequest ==
    Response(400, None, None, None, <<>>, FALSE, None, "Message field required")

\* app.py 102-107
TestSuccess(user_message, bot_response) ==
    Response(200, "success", None, user_message, bot_response, FALSE, None, None)

\* app.py 109-113
TestError(text) ==
    Response(500, None, None, None, <<>>, FALSE, None, "Test mode error: " \o text)

\* What request.json() and body.get raise on a body that is no JSON object.
BodyException(body) ==
    IF body.kind = "malformed" THEN "Expecting value"
    ELSE "'list' object has no attribute 'get'"

\* ------------------------------------------- bot.py: handle_teams_message
\* Mutant of TeamsResult: a failed delivery replaces the reply text.
TeamsResult_failureText(bot_response, reply_sent, reply_attempted) ==
    [bot_response |-> IF reply_attempted /\ ~reply_sent
                      THEN <<"Teams reply failed">> ELSE bot_response,
     reply_sent |-> reply_sent, reply_attempted |-> reply_attempted,
     error |-> <<>>, returned |-> TRUE]

\* bot.py 296-307: the result of a handled message.
TeamsResult(bot_response, reply_sent, reply_attempted) ==
    [bot_response |-> bot_response, reply_sent |-> reply_sent,
     reply_attempted |-> reply_attempted, error |-> <<>>, returned |-> TRUE]

\* Mutant of TeamsErrorResult: the reply is reported as attempted.
TeamsErrorResult_attempted(exc) ==
    [bot_response |-> <<"Teams OpenAI error: ">> \o exc, reply_sent |-> FALSE,
     reply_attempted |-> TRUE, error |-> exc, returned |-> TRUE]

\* bot.py 309-317: the result when anything in the handler raised.
TeamsErrorResult(exc) ==
    [bot_response |-> <<"Teams OpenAI error: ">> \o exc, reply_sent |-> FALSE,
     reply_attempted |-> FALSE, error |-> exc, returned |-> TRUE]

\* Mutant of on_messages_return: a result that carries an error is answered
\* as a failure of the request.
on_messages_return_raises(l, c, result, token, expires_at) ==
    Step("done", [l EXCEPT !.result = result, !.current_time = 0], c,
         IF result.error # <<>> THEN MessageError("handler failed")
         ELSE MessageProcessed(l.user_message, result), token, expires_at)

\* app.py 50-59: handle_teams_message returned, on_messages answers.
on_messages_return(l, c, result, token, expires_at) ==
    Step("done", [l EXCEPT !.result = result, !.current_time = 0], c,
         MessageProcessed(l.user_message, result), token, expires_at)

\* bot.py 230-254: handle_teams_message reads the activity and awaits the
\* chat completion; a null conversation makes the nested .get raise.
handle_teams_message_start(l, body, token, expires_at) ==
    IF body.conversation = None
    THEN on_messages_return(l, NoCalls,
             TeamsErrorResult(<<"'NoneType' object has no attribute 'get'">>),
             token, expires_at)
    ELSE Step("htm_model",
              [l EXCEPT !.conversation_id = Get(body.conversation, "unknown"),
                        !.activity_id = Get(body.id, "unknown"),
                        !.service_url = Get(body.serviceUrl, "")],
              [NoCalls EXCEPT !.model = 1], NoResponse, token, expires_at)

\* ---------------------------------------- bot.py: process_fastapi_request
\* bot.py 123: the fixed status returned without the framework.
DevelopmentModeStatus == "development_mode"

\* Mutant of FrameworkBypassed: the mode is not looked at.
FrameworkBypassed_never(cfg, app) == FALSE

\* bot.py 120: the framework is left out in development mode and when the
\* application was never built.
FrameworkBypassed(cfg, app) == cfg.DEVELOPMENT_MODE \/ app = None

\* Mutant of FrameworkResult: the exception is handed on as the result.
FrameworkResult_propagates(outcome) == outcome

\* bot.py 126-132: the pipeline's response, or None when it raised.
FrameworkResult(outcome) == IF outcome = "raise" THEN None ELSE outcome

\* bot.py 119-126: process_fastapi_request up to its await on the pipeline;
\* answer is what the caller makes of a returned value.
process_fastapi_request_start(cfg, app, token, expires_at, answered) ==
    IF FrameworkBypassed(cfg, app)
    THEN Step("done", [NoLocals EXCEPT !.res = DevelopmentModeStatus], NoCalls,
              IF answered THEN ProductionResponse(DevelopmentModeStatus)
              ELSE NoResponse, token, expires_at)
    ELSE Step("pfr_process", NoLocals, [NoCalls EXCEPT !.framework = 1],
              NoResponse, token, expires_at)

\* ----------------------------------------------------------------- actions
\* A task that produced its response hands it to the server and ends before
\* any other task runs: nothing awaits between the return and the send.
Quiet == \A t \in Tasks : pc[t] # "done"

\* A new request is served by a new task; the tasks are interchangeable, so
\* it takes the first one that is free.
Free(t) ==
    /\ phase = "listening"
    /\ Quiet
    /\ pc[t] = "idle"
    /\ requests < MaxRequests
    /\ t = "task1" \/ pc["task1"] # "idle"

Arrive(t, endpoint, body) ==
    /\ req' = [req EXCEPT ![t] = [endpoint |-> endpoint, body |-> body]]
    /\ requests' = requests + 1
    /\ UNCHANGED stored

\* app.py 36-83: POST /api/messages, up to its first await on the network.
on_messages(t, body) ==
    /\ Free(t)
    /\ Arrive(t, "messages", body)
    /\ Take(t,
         IF config.DEVELOPMENT_MODE
         THEN IF body.kind # "object"
              THEN Step("done", NoLocals, NoCalls, MessageError(BodyException(body)),
                        _bot_access_token, _token_expires_at)
              ELSE IF IsUserMessage(body)
              THEN handle_teams_message_start(
                       [NoLocals EXCEPT !.user_message = body.text], body,
                       _bot_access_token, _token_expires_at)
              ELSE Step("done", NoLocals, NoCalls, MessageAcknowledged(body),
                        _bot_access_token, _token_expires_at)
         ELSE process_fastapi_request_start(config, bot_app, _bot_access_token,
                                            _token_expires_at, TRUE))

\* bot.py 126-132 and app.py 78-83: the framework pipeline returned or raised.
process_fastapi_request(t, outcome) ==
    /\ Quiet
    /\ pc[t] = "pfr_process"
    /\ Take(t, Step("done",
                    [loc[t] EXCEPT !.framework = outcome,
                                   !.res = FrameworkResult(outcome)],
                    cnt[t],
                    IF req[t].endpoint = "messages"
                    THEN ProductionResponse(FrameworkResult(outcome))
                    ELSE NoResponse,
                    _bot_access_token, _token_expires_at))
    /\ UNCHANGED <<req, requests, stored>>

\* bot.py 117-127: process_fastapi_request called on its own, as any
\* importer of bot.py may call it, in either mode.  The service calls it in
\* production mode only (app.py 78).
call_process_fastapi_request(t) ==
    /\ Free(t)
    /\ Arrive(t, "direct", MalformedBody)
    /\ Take(t, process_fastapi_request_start(config, bot_app, _bot_access_token,
                                             _token_expires_at, FALSE))

\* app.py 85-113: POST /api/test, up to the await on the chat completion.
test_chat(t, body) ==
    /\ Free(t)
    /\ Arrive(t, "test", body)
    /\ Take(t,
         IF body.kind # "object"
         THEN Step("done", NoLocals, NoCalls, TestError(BodyException(body)),
                   _bot_access_token, _token_expires_at)
         ELSE IF MessageMissing(Get(body.message, ""))
         THEN Step("done", NoLocals, NoCalls, TestBadRequest,
                   _bot_access_token, _token_expires_at)
         ELSE Step("ht_model", [NoLocals EXCEPT !.user_message = body.message],
                   [NoCalls EXCEPT !.model = 1], NoResponse,
                   _bot_access_token, _token_expires_at))

\* bot.py 145-168 and app.py 100-107: the chat completion of the test
\* endpoint returned or raised.
handle_test_message(t, outcome) ==
    /\ Quiet
    /\ pc[t] = "ht_model"
    /\ LET bot_response ==
               IF outcome.kind = "ok" THEN Strip(outcome.content)
               ELSE <<"OpenAI API error: ">> \o outcome.content
       IN Take(t, Step("done",
                       [loc[t] EXCEPT !.model = outcome.kind,
                                      !.completion = outcome.content,
                                      !.bot_response = bot_response],
                       cnt[t], TestSuccess(loc[t].user_message, bot_response),
                       _bot_access_token, _token_expires_at))
    /\ UNCHANGED <<req, requests, stored>>

\* bot.py 254-317: the chat completion of a channel message returned or
\* raised; the reply is delivered when ShouldSendReply says so.
handle_teams_message(t, outcome) ==
    /\ Quiet
    /\ pc[t] = "htm_model"
    /\ LET l == [loc[t] EXCEPT !.model = outcome.kind,
                               !.completion = outcome.content,
                               !.bot_response =
                                   IF outcome.kind = "ok" THEN Strip(outcome.content)
                                   ELSE <<>>]
       IN Take(t,
            IF outcome.kind # "ok"
            THEN on_messages_return(l, cnt[t], TeamsErrorResult(outcome.content),
                                    _bot_access_token, _token_expires_at)
            ELSE IF ShouldSendReply(config, l.service_url, l.conversation_id,
                                    l.activity_id)
            THEN send_teams_reply_start([l EXCEPT !.after_clear = cleared], cnt[t],
                                        _bot_access_token, _token_expires_at,
                                        config, now)
            ELSE on_messages_return(l, cnt[t],
                                    TeamsResult(l.bot_response, FALSE, FALSE),
                                    _bot_access_token, _token_expires_at))
    /\ UNCHANGED <<req, requests, stored>>

\* Tokens are opaque to the program: the endpoint answers with a token that
\* is held somewhere (it may hand out the same token again) or with a new
\* one, and a new one is named tokenA when no tokenA is held.
Held == {_bot_access_token} \cup {loc[u].access_token : u \in Tasks}

Issuable(access_token) == access_token = "tokenB" => "tokenA" \in Held

\* Mutant of get_bot_access_token: token requests are serialised, a task
\* handles its token response only when no earlier task awaits one.
get_bot_access_token_serialised(t, outcome) ==
    /\ Quiet
    /\ pc[t] = "gbat_post"
    /\ t = "task1" \/ pc["task1"] # "gbat_post"
    /\ Issuable(outcome.access_token)
    /\ Take(t,
         IF outcome.kind = "status" /\ outcome.status = 200
         THEN LET token == ResponseToken(outcome.access_token)
              IN send_teams_reply_post(
                     loc[t], [cnt[t] EXCEPT !.writes = @ + 1], token, "fetch", token,
                     TokenExpiresAt(loc[t].current_time, outcome.expires_in), config)
         ELSE send_teams_reply_post(loc[t], cnt[t], None, "failed",
                                    _bot_access_token, _token_expires_at, config))
    /\ stored' =
         IF outcome.kind = "status" /\ outcome.status = 200
         THEN [response |-> TokenResponse(200, outcome.access_token,
                                          outcome.expires_in),
               current_time |-> loc[t].current_time]
         ELSE stored
    /\ UNCHANGED <<req, requests>>

\* bot.py 55-73: the token endpoint answered or the transport raised; on a
\* 200 the token and its expiry are stored.  send_teams_reply goes on to
\* its POST with whatever came back.
get_bot_access_token(t, outcome) ==
    /\ Quiet
    /\ pc[t] = "gbat_post"
    /\ Issuable(outcome.access_token)
    /\ Take(t,
         IF outcome.kind = "status" /\ outcome.status = 200
         THEN LET token == ResponseToken(outcome.access_token)
              IN send_teams_reply_post(
                     loc[t], [cnt[t] EXCEPT !.writes = @ + 1], token, "fetch", token,
                     TokenExpiresAt(loc[t].current_time, outcome.expires_in), config)
         ELSE send_teams_reply_post(loc[t], cnt[t], None, "failed",
                                    _bot_access_token, _token_expires_at, config))
    /\ stored' =
         IF outcome.kind = "status" /\ outcome.status = 200
         THEN [response |-> TokenResponse(200, outcome.access_token,
                                          outcome.expires_in),
               current_time |-> loc[t].current_time]
         ELSE stored
    /\ UNCHANGED <<req, requests>>

\* bot.py 56-61 and 70-73: the token endpoint answered 200 with a JSON
\* object whose expires_in is not a number (a string, null).  Line 59 has
\* assigned the token when the addition of line 61 raises TypeError; the
\* expiry keeps its value, the except clause returns None and
\* send_teams_reply posts without a token.
get_bot_access_token_expires_in_raises(t, access_token) ==
    /\ Quiet
    /\ pc[t] = "gbat_post"
    /\ Issuable(access_token)
    /\ Take(t, send_teams_reply_post(loc[t], [cnt[t] EXCEPT !.writes = @ + 1],
                                      None, "failed", ResponseToken(access_token),
                                      _token_expires_at, config))
    /\ UNCHANGED <<req, requests, stored>>

\* bot.py 207-227 and 296-307: the reply connector answered or the transport
\* raised; a 401 to a request that carried a token clears the cache.
send_teams_reply(t, outcome) ==
    /\ Quiet
    /\ pc[t] = "str_post"
    /\ LET l == [loc[t] EXCEPT !.reply = outcome]
           sent == outcome.kind = "status" /\ ReplySucceeded(outcome.status)
           clear == /\ outcome.kind = "status"
                    /\ ~ReplySucceeded(outcome.status)
                    /\ ShouldClearToken(outcome.status, loc[t].access_token)
       IN Take(t, on_messages_return(
                     l, IF clear THEN [cnt[t] EXCEPT !.writes = @ + 1] ELSE cnt[t],
                     TeamsResult(l.bot_response, sent, TRUE),
                     IF clear THEN None ELSE _bot_access_token,
                     IF clear THEN 0 ELSE _token_expires_at))
    /\ stored' =
         IF /\ outcome.kind = "status"
            /\ ~ReplySucceeded(outcome.status)
            /\ ShouldClearToken(outcome.status, loc[t].access_token)
         THEN NoStore ELSE stored
    /\ UNCHANGED <<req, requests>>

\* app.py 115-142: GET /health; the handler awaits nothing.
health_check(t) ==
    /\ Free(t)
    /\ Arrive(t, "health", MalformedBody)
    /\ Take(t, Step("done", NoLocals, NoCalls, HealthResponse(config),
                    _bot_access_token, _token_expires_at))

\* The server sends the task's response and the task ends.
send_response(t) ==
    /\ pc[t] = "done"
    /\ pc' = [pc EXCEPT ![t] = "idle"]
    /\ req' = [req EXCEPT ![t] = NoRequest]
    /\ loc' = [loc EXCEPT ![t] = NoLocals]
    /\ cnt' = [cnt EXCEPT ![t] = NoCalls]
    /\ resp' = [resp EXCEPT ![t] = NoResponse]
    /\ UNCHANGED <<env, phase, config, bot_app, handlers, _bot_access_token,
                   _token_expires_at, now, ticks, requests, stored, cleared>>

\* time.time() moves on between two steps.
Tick(d) ==
    /\ Quiet
    /\ ticks < MaxTicks
    /\ now' = now + d
    /\ ticks' = ticks + 1
    /\ UNCHANGED <<env, phase, config, bot_app, handlers, _bot_access_token,
                   _token_expires_at, requests, pc, req, loc, cnt, resp, stored,
                   cleared>>

Next ==
    \/ \E t \in Tasks, body \in WebhookBodies : on_messages(t, body)
    \/ \E t \in Tasks, outcome \in FrameworkOutcomes : process_fastapi_request(t, outcome)
    \/ \E t \in Tasks, body \in TestBodies : test_chat(t, body)
    \/ \E t \in Tasks, outcome \in TestModelOutcomes : handle_test_message(t, outcome)
    \/ \E t \in Tasks : health_check(t)
    \/ \E t \in Tasks, outcome \in ModelOutcomes : handle_teams_message(t, outcome)
    \/ \E t \in Tasks, outcome \in TokenOutcomes : get_bot_access_token(t, outcome)
    \/ \E t \in Tasks, outcome \in ReplyOutcomes : send_teams_reply(t, outcome)
    \/ \E t \in Tasks : send_response(t)
    \/ \E d \in TickSteps : Tick(d)

Spec == Init /\ [][Next]_vars

\* The external call that the task awaits (chat completion, framework
\* pipeline, token endpoint, reply connector) returns or raises.
Returns(t) ==
    \/ \E outcome \in FrameworkOutcomes : process_fastapi_request(t, outcome)
    \/ \E outcome \in TestModelOutcomes : handle_test_message(t, outcome)
    \/ \E outcome \in ModelOutcomes : handle_teams_message(t, outcome)
    \/ \E outcome \in TokenOutcomes : get_bot_access_token(t, outcome)
    \/ \E outcome \in ReplyOutcomes : send_teams_reply(t, outcome)

\* The service with the clock standing still.  Time only selects between
\* the cached token and a token request, and both are met at one time: a
\* token stored with expires_in 60 has expired when it is stored.
NextLive ==
    \/ \E t \in Tasks, body \in WebhookBodies : on_messages(t, body)
    \/ \E t \in Tasks, body \in TestBodies : test_chat(t, body)
    \/ \E t \in Tasks : health_check(t)
    \/ \E t \in Tasks : Returns(t)
    \/ \E t \in Tasks : send_response(t)

\* The server sends the response of every handler that has returned: the
\* event loop runs a task that is ready, whatever the other tasks wait
\* for.  Nothing is assumed here of the external calls.
SpecLive ==
    Init /\ [][NextLive]_vars /\ \A t \in Tasks : WF_vars(send_response(t))

\* The service together with direct calls of the orchestrator's
\* process_fastapi_request.
NextOrchestrator ==
    \/ Next
    \/ \E t \in Tasks : call_process_fastapi_request(t)

SpecOrchestrator == Init /\ [][NextOrchestrator]_vars

\* The service with a token endpoint whose 200 bodies may also state an
\* expires_in that is not a number.
NextTokenBodies ==
    \/ Next
    \/ \E t \in Tasks, a \in Tokens :
          get_bot_access_token_expires_in_raises(t, a)

SpecTokenBodies == Init /\ [][NextTokenBodies]_vars

\* ----------------------------------------------------------------- startup
\* The process before config.py has run, in any environment.
InitStartup ==
    /\ env \in Environments
    /\ phase = "starting"
    /\ config = Unconfigured
    /\ bot_app = None
    /\ handlers = {}
    /\ _bot_access_token = None
    /\ _token_expires_at = 0
    /\ now = 0
    /\ ticks = 0
    /\ requests = 0
    /\ pc = [t \in Tasks |-> "idle"]
    /\ req = [t \in Tasks |-> NoRequest]
    /\ loc = [t \in Tasks |-> NoLocals]
    /\ cnt = [t \in Tasks |-> NoCalls]
    /\ resp = [t \in Tasks |-> NoResponse]
    /\ stored = NoStore
    /\ cleared = "no"

\* A startup step changes nothing of the running service.
StartupFrame ==
    UNCHANGED <<env, _bot_access_token, _token_expires_at, now, ticks, requests,
                pc, req, loc, cnt, resp, stored, cleared>>

\* config.py 12-29, executed when app.py imports bot and bot imports config:
\* the class body raises on a missing OPENAI_API_KEY and the import chain,
\* and with it the process, ends.
load_config ==
    /\ phase = "starting"
    /\ IF ConfigFails(env)
       THEN phase' = "failed" /\ UNCHANGED config
       ELSE phase' = "configured" /\ config' = LoadConfig(env)
    /\ UNCHANGED <<bot_app, handlers>>
    /\ StartupFrame

\* bot.py 75-114 and 319-338: the rest of the import of bot.
load_bot ==
    /\ phase = "configured"
    /\ phase' = "imported"
    /\ bot_app' = BuildApplication(config)
    /\ handlers' = RegisterHandlers(config, bot_app')
    /\ UNCHANGED config
    /\ StartupFrame

\* app.py 440-478: uvicorn.run binds the port and serves.
uvicorn_run ==
    /\ phase = "imported"
    /\ phase' = "listening"
    /\ UNCHANGED <<config, bot_app, handlers>>
    /\ StartupFrame

NextStartup ==
    \/ load_config
    \/ load_bot
    \/ uvicorn_run
    \/ \E t \in Tasks : health_check(t)
    \/ \E t \in Tasks : send_response(t)

SpecStartup == InitStartup /\ [][NextStartup]_vars

\* ---------------------------------------------------------------- claims
\* The step in which the task t calls get_bot_access_token: it leaves the
\* await on the chat completion for the token endpoint or the reply POST.
GetTokenCall(t) == pc[t] = "htm_model" /\ pc'[t] \in {"gbat_post", "str_post"}

\* C1: a call to get_bot_access_token made while the cache holds a non-empty
\* token and the time is strictly before the cached expiry returns exactly
\* the cached token (the reply POST carries it) and issues no token request.
C1_CacheHitReturnsCachedToken ==
    [][\A t \in Tasks :
          ( /\ GetTokenCall(t)
            /\ _bot_access_token \notin {None, ""}
            /\ now < _token_expires_at )
          => /\ pc'[t] = "str_post"
             /\ loc'[t].access_token = _bot_access_token
             /\ loc'[t].post.authorization = _bot_access_token
             /\ cnt'[t].token = 0
             /\ _bot_access_token' = _bot_access_token
             /\ _token_expires_at' = _token_expires_at]_vars

\* C1 witness: after time has passed, a task got its token from the cache
\* without a token request and has its reply POST in flight.
C1_Witness ==
    \E t \in Tasks :
        /\ pc[t] = "str_post"
        /\ loc[t].token_source = "cache"
        /\ cnt[t].token = 0
        /\ now > 0

\* C2: with both credentials configured, a call made when the cache is empty
\* or its expiry has passed issues exactly one token request; a call inside
\* the validity window issues none; no other step issues a token request;
\* and a 200 answer leaves the returned token in the cache for later calls.
C2_OneTokenRequestPerExpiry ==
    [][\A t \in Tasks :
          /\ ( /\ GetTokenCall(t)
               /\ config.APP_ID # "" /\ config.APP_PASSWORD # ""
               /\ (_bot_access_token \in {None, ""} \/ now >= _token_expires_at) )
             => (pc'[t] = "gbat_post" /\ cnt[t].token = 0 /\ cnt'[t].token = 1)
          /\ ( /\ GetTokenCall(t)
               /\ _bot_access_token \notin {None, ""} /\ now < _token_expires_at )
             => cnt'[t].token = 0
          /\ ~GetTokenCall(t) => cnt'[t].token <= cnt[t].token
          /\ (pc[t] = "gbat_post" /\ loc'[t].token_source = "fetch")
             => (_bot_access_token' = loc'[t].access_token /\ cnt'[t].token = 1)]_vars

\* C2 witness: a token that was stored earlier has expired, and the call
\* made after its expiry has issued its one token request.
C2_Witness ==
    \E t \in Tasks :
        /\ pc[t] = "gbat_post"
        /\ cnt[t].token = 1
        /\ _bot_access_token \in Tokens
        /\ _token_expires_at > 0
        /\ loc[t].current_time >= _token_expires_at

\* C3: a reply attempt that carried a token and was answered 401 leaves the
\* cache cleared (token absent, expiry 0); while the cache is as the 401
\* left it, it is cleared; and the next call to get_bot_access_token does
\* not answer from the cache but issues a token request, also when the
\* rejected token was the cached one and had not expired.
C3_Cleared401ForcesFreshToken ==
    /\ \A t \in Tasks :
          ( /\ pc[t] = "done"
            /\ loc[t].reply.kind = "status" /\ loc[t].reply.status = 401
            /\ loc[t].access_token \notin {None, ""} )
          => (_bot_access_token = None /\ _token_expires_at = 0 /\ cleared # "no")
    /\ cleared # "no" => (_bot_access_token = None /\ _token_expires_at = 0)
    /\ \A t \in Tasks :
          loc[t].after_clear # "no"
          => /\ loc[t].token_source # "cache"
             /\ cnt[t].token = 1
             /\ pc[t] = "gbat_post" \/ loc[t].token_source \in {"fetch", "failed"}

\* C3 witness: the cached, unexpired token was rejected with 401, and the
\* next call has a token request in flight.
C3_Witness ==
    \E t \in Tasks :
        /\ loc[t].after_clear = "live"
        /\ pc[t] = "gbat_post"
        /\ cnt[t].token = 1

\* The task t has produced the response of a request to the given endpoint.
Answered(t, endpoint) == pc[t] = "done" /\ req[t].endpoint = endpoint

\* The reply POST of t was answered 401.
Reply401(t) == loc[t].reply.kind = "status" /\ loc[t].reply.status = 401

Carries(v) == v \notin {Absent, None, ""}

CarriesAllThree(body) ==
    Carries(body.serviceUrl) /\ Carries(body.conversation) /\ Carries(body.id)

\* C5 as claimed: once the chat completion has returned, handle_teams_message
\* attempts delivery exactly when TEAMS_REPLY_ENABLED is set and the activity
\* carries serviceUrl, conversation.id and id; for an activity that lacks
\* one of them no reply POST goes out and both delivery flags are false.
C5_DeliveryNeedsAllThreeFields ==
    \A t \in Tasks :
        (Answered(t, "messages") /\ loc[t].model = "ok")
        => /\ loc[t].result.reply_attempted
              <=> (config.TEAMS_REPLY_ENABLED /\ CarriesAllThree(req[t].body))
           /\ ~CarriesAllThree(req[t].body)
              => /\ cnt[t].post = 0
                 /\ ~loc[t].result.reply_sent
                 /\ ~loc[t].result.reply_attempted

\* C6: in development mode a POST to /api/messages whose type is not
\* "message", or whose text is absent or empty, is answered 200 with the
\* activity's type ("unknown" when it has none), and the request issues no
\* chat completion, no token request and no reply POST.
C6_SystemActivityAcknowledged ==
    \A t \in Tasks :
        ( /\ Answered(t, "messages")
          /\ config.DEVELOPMENT_MODE
          /\ req[t].body.kind = "object"
          /\ (req[t].body.type # "message" \/ req[t].body.text \in {Absent, ""}) )
        => /\ resp[t].code = 200
           /\ resp[t].status = "ok"
           /\ resp[t].activity_type =
                 (IF req[t].body.type = Absent THEN "unknown" ELSE req[t].body.type)
           /\ cnt[t].model = 0 /\ cnt[t].token = 0 /\ cnt[t].post = 0

\* C6 witness: a membership-change activity was acknowledged.
C6_Witness ==
    \E t \in Tasks :
        /\ Answered(t, "messages")
        /\ config.DEVELOPMENT_MODE
        /\ req[t].body.kind = "object"
        /\ req[t].body.type = "conversationUpdate"
        /\ resp[t].code = 200

\* The request of t is a well-formed message activity with a text.
MessageActivity(t) ==
    /\ req[t].body.kind = "object"
    /\ req[t].body.type = "message"
    /\ req[t].body.text \notin {Absent, None, ""}

\* C7: in development mode a POST to /api/messages with a well-formed message
\* activity is answered 200 whether the chat completion returns or raises;
\* when it raises, the exception's text is part of bot_response and the
\* response carries no error field.
C7_ModelFailureIsNotHttpFailure ==
    \A t \in Tasks :
        (Answered(t, "messages") /\ config.DEVELOPMENT_MODE /\ MessageActivity(t))
        => /\ resp[t].code = 200
           /\ resp[t].status = "processed"
           /\ resp[t].error = None
           /\ loc[t].model = "raise"
              => /\ Len(resp[t].bot_response) = 2
                 /\ resp[t].bot_response[2] = "timeout"
                 /\ ~resp[t].reply_sent
                 /\ cnt[t].post = 0

\* C7 witness: the chat completion raised and the request was answered 200.
C7_Witness ==
    \E t \in Tasks :
        /\ Answered(t, "messages") /\ config.DEVELOPMENT_MODE /\ MessageActivity(t)
        /\ loc[t].model = "raise"
        /\ resp[t].code = 200

\* The handler of t's request raised at the route level: the body could not
\* be parsed or is no JSON object.  The production webhook does not read it.
RouteException(t) ==
    /\ req[t].body.kind # "object"
    /\ req[t].endpoint = "test" \/ (req[t].endpoint = "messages" /\ config.DEVELOPMENT_MODE)

\* C8 as claimed: whenever an exception was raised while the response of a
\* request to /api/test or /api/messages was computed (at the route level,
\* by the chat completion or by the framework pipeline), the response has
\* status 500 and an error body.
C8_Original ==
    \A t \in Tasks :
        ( /\ pc[t] = "done"
          /\ RouteException(t) \/ loc[t].model = "raise" \/ loc[t].framework = "raise" )
        => (resp[t].code = 500 /\ resp[t].error # None)

\* C8 as amended: a request whose body cannot be parsed or is no JSON object
\* makes the route handler of /api/test (either mode) and of the
\* development-mode webhook answer 500 with an error body in the very step
\* it arrives, with no outbound call, the token cache and every other task
\* untouched; nothing else answers 500: an exception of the chat completion
\* or of the framework pipeline is absorbed and answered 200.
C8_RouteExceptionsAnswered500 ==
    [][\A t \in Tasks :
          /\ ( /\ pc[t] = "idle" /\ pc'[t] # "idle"
               /\ req'[t].body.kind # "object"
               /\ \/ req'[t].endpoint = "test"
                  \/ req'[t].endpoint = "messages" /\ config.DEVELOPMENT_MODE )
             => /\ pc'[t] = "done"
                /\ resp'[t].code = 500
                /\ resp'[t].error # None
                /\ cnt'[t].model = 0 /\ cnt'[t].token = 0 /\ cnt'[t].post = 0
                /\ cnt'[t].writes = 0 /\ cnt'[t].framework = 0
                /\ _bot_access_token' = _bot_access_token
                /\ _token_expires_at' = _token_expires_at
                /\ \A u \in Tasks \ {t} :
                      pc'[u] = pc[u] /\ loc'[u] = loc[u] /\ resp'[u] = resp[u]
          /\ (pc'[t] = "done" /\ resp'[t].code = 500)
             => /\ req'[t].body.kind # "object"
                /\ \/ req'[t].endpoint = "test"
                   \/ req'[t].endpoint = "messages" /\ config.DEVELOPMENT_MODE
          /\ ( /\ pc'[t] = "done"
               /\ loc'[t].model = "raise" \/ loc'[t].framework = "raise" )
             => resp'[t].code = 200]_vars

\* C8 witness: the development-mode webhook answered a body that is no JSON
\* object with 500.
C8_Witness ==
    \E t \in Tasks :
        /\ Answered(t, "messages")
        /\ req[t].body.kind = "nonobject"
        /\ resp[t].code = 500
        /\ resp[t].error # None

\* The delivery of t's reply failed on the channel side.
TokenFailed(t) == loc[t].token_source \in {"failed", "nocreds"}

ReplyFailed(t) ==
    \/ loc[t].reply.kind = "raise"
    \/ loc[t].reply.kind = "status" /\ loc[t].reply.status \notin {200, 201}

\* C9: when the token could not be obtained, or the reply connector answered
\* another status than 200 and 201, or the transport raised, the
\* development-mode webhook still answers 200 with the chat completion's
\* (stripped) text in bot_response and no error field; a failed reply shows
\* only as reply_sent = false.
C9_ChannelFailureNeverAborts ==
    \A t \in Tasks :
        ( /\ Answered(t, "messages")
          /\ config.DEVELOPMENT_MODE
          /\ loc[t].result.reply_attempted
          /\ TokenFailed(t) \/ ReplyFailed(t) )
        => /\ resp[t].code = 200
           /\ resp[t].status = "processed"
           /\ resp[t].error = None
           /\ resp[t].bot_response = <<"h", "i">>
           /\ resp[t].user_message = req[t].body.text
           /\ ReplyFailed(t) => ~resp[t].reply_sent

\* C9 witness: the token endpoint failed and the transport of the reply POST
\* raised, and the request was answered 200.
C9_Witness ==
    \E t \in Tasks :
        /\ Answered(t, "messages")
        /\ loc[t].token_source = "failed"
        /\ loc[t].reply.kind = "raise"
        /\ resp[t].code = 200
        /\ ~resp[t].reply_sent

\* C10: a POST to /api/test whose JSON body has an empty or no message field
\* is answered 400 with an error field, and no chat completion is asked for.
C10_EmptyMessageRejected ==
    \A t \in Tasks :
        ( /\ Answered(t, "test")
          /\ req[t].body.kind = "object"
          /\ req[t].body.message \in {Absent, ""} )
        => /\ resp[t].code = 400
           /\ resp[t].error # None
           /\ cnt[t].model = 0

\* C10 witness: an empty message was refused with 400.
C10_Witness ==
    \E t \in Tasks :
        /\ Answered(t, "test")
        /\ req[t].body.kind = "object"
        /\ req[t].body.message = ""
        /\ resp[t].code = 400

\* The request of t carries a message the test endpoint accepts.
TestMessage(t) ==
    /\ req[t].body.kind = "object"
    /\ req[t].body.message \notin {Absent, None, ""}

\* A text that has no character but blanks.
Blank(s) == \A i \in 1..Len(s) : s[i] = " "

\* C11 as claimed: a POST to /api/test with a non-empty message is answered
\* 200 with user_message equal to the message and a non-empty bot_response,
\* whatever the chat completion returns and however it fails.
C11_Original ==
    \A t \in Tasks :
        (Answered(t, "test") /\ TestMessage(t))
        => /\ resp[t].code = 200
           /\ resp[t].user_message = req[t].body.message
           /\ resp[t].bot_response # <<>>

\* C11 as amended: such a request is answered 200 with status "success",
\* user_message equal to the message and no error field, after exactly one
\* chat completion; bot_response is the completion's text without its
\* leading and trailing blanks, or the error text around the exception's
\* message when the completion raised; it is empty exactly when the
\* completion returned a text that is empty or all blanks.
C11_TestAnswersWithStrippedReply ==
    \A t \in Tasks :
        (Answered(t, "test") /\ TestMessage(t))
        => /\ resp[t].code = 200
           /\ resp[t].status = "success"
           /\ resp[t].error = None
           /\ resp[t].user_message = req[t].body.message
           /\ cnt[t].model = 1
           /\ loc[t].model \in {"ok", "raise"}
           /\ loc[t].model = "raise"
              => resp[t].bot_response = <<"OpenAI API error: ">> \o loc[t].completion
           /\ loc[t].model = "ok"
              => LET b == resp[t].bot_response
                     c == loc[t].completion
                 IN /\ b # <<>> => (b[1] # " " /\ b[Len(b)] # " ")
                    /\ \E i \in 0..Len(c) :
                          /\ i + Len(b) <= Len(c)
                          /\ b = SubSeq(c, i + 1, i + Len(b))
                          /\ Blank(SubSeq(c, 1, i))
                          /\ Blank(SubSeq(c, i + Len(b) + 1, Len(c)))
           /\ resp[t].bot_response = <<>>
              <=> (loc[t].model = "ok" /\ Blank(loc[t].completion))

\* C11 witness: the completion came back blank, and the request was answered
\* 200 with the message echoed and an empty bot_response.
C11_Witness ==
    \E t \in Tasks :
        /\ Answered(t, "test") /\ TestMessage(t)
        /\ loc[t].model = "ok"
        /\ loc[t].completion = <<" ">>
        /\ resp[t].code = 200
        /\ resp[t].user_message = "hello"
        /\ resp[t].bot_response = <<>>

\* C12: in production mode every POST to /api/messages, whatever its body,
\* is handed to process_fastapi_request, which runs the framework pipeline
\* once, and is answered 200: with status "processed" exactly when the
\* pipeline returned a result that is not None, and with status "ok" exactly
\* when it returned None or raised; handle_teams_message is never entered
\* (no chat completion, no token request, no reply POST, no handler result).
C12_ProductionDelegatesToFramework ==
    \A t \in Tasks :
        (req[t].endpoint = "messages" /\ ~config.DEVELOPMENT_MODE)
        => /\ pc[t] \in {"pfr_process", "done"}
           /\ cnt[t].framework = 1
           /\ cnt[t].model = 0 /\ cnt[t].token = 0 /\ cnt[t].post = 0
           /\ ~loc[t].result.returned
           /\ pc[t] = "done"
              => /\ resp[t].code = 200
                 /\ resp[t].error = None
                 /\ resp[t].mode = None
                 /\ resp[t].status = "processed"
                    <=> loc[t].framework \notin {None, "raise"}
                 /\ resp[t].status = "ok"
                    <=> loc[t].framework \in {None, "raise"}

\* C12 witness: in production mode the pipeline raised on a body that is
\* not even JSON, and the request was answered 200 with status "ok".
C12_Witness ==
    \E t \in Tasks :
        /\ Answered(t, "messages") /\ ~config.DEVELOPMENT_MODE
        /\ req[t].body.kind = "malformed"
        /\ loc[t].framework = "raise"
        /\ resp[t].code = 200
        /\ resp[t].status = "ok"

\* C13: in development mode the framework application is absent and no
\* error or feedback hook is registered in every reachable state, no request
\* ever runs the framework pipeline, and every call of
\* process_fastapi_request returns the fixed development-mode status at once,
\* without awaiting the pipeline.
C13_DevelopmentModeHasNoFramework ==
    config.DEVELOPMENT_MODE
    => /\ bot_app = None
       /\ handlers = {}
       /\ \A t \in Tasks :
             /\ pc[t] # "pfr_process"
             /\ cnt[t].framework = 0
             /\ loc[t].framework = "none"
             /\ req[t].endpoint = "direct"
                => /\ pc[t] = "done"
                   /\ loc[t].res = "development_mode"

\* C13 witness: in development mode process_fastapi_request was called and
\* returned the development-mode status without a run of the pipeline.
C13_Witness ==
    \E t \in Tasks :
        /\ config.DEVELOPMENT_MODE
        /\ bot_app = None
        /\ req[t].endpoint = "direct"
        /\ pc[t] = "done"
        /\ loc[t].res = "development_mode"
        /\ cnt[t].framework = 0

\* C14: no operation of the orchestrator hands an exception to its caller.
\* When the framework pipeline raises, process_fastapi_request returns None;
\* when the chat completion raises, handle_test_message returns its error
\* string and handle_teams_message (also when reading the activity raises)
\* its error result with both delivery flags false; when the token endpoint
\* fails, get_bot_access_token returns None and send_teams_reply goes on to
\* its POST; when the reply connector fails, send_teams_reply returns
\* False and handle_teams_message its ordinary result.  No such request is
\* answered 500.
C14_OrchestratorAbsorbsExceptions ==
    \A t \in Tasks :
        /\ loc[t].framework = "raise"
           => (pc[t] = "done" /\ loc[t].res = None /\ resp[t].code = 200)
        /\ (req[t].endpoint = "test" /\ loc[t].model = "raise")
           => /\ pc[t] = "done"
              /\ resp[t].code = 200
              /\ resp[t].bot_response = <<"OpenAI API error: ">> \o loc[t].completion
        /\ ( /\ req[t].endpoint = "messages"
              /\ \/ loc[t].model = "raise"
                 \/ (pc[t] = "done" /\ config.DEVELOPMENT_MODE /\ MessageActivity(t)
                     /\ req[t].body.conversation = None) )
           => /\ pc[t] = "done"
              /\ resp[t].code = 200
              /\ loc[t].result.returned
              /\ loc[t].result.error # <<>>
              /\ loc[t].result.bot_response =
                    <<"Teams OpenAI error: ">> \o loc[t].result.error
              /\ ~loc[t].result.reply_sent
              /\ ~loc[t].result.reply_attempted
        /\ loc[t].token_source = "failed"
           => /\ loc[t].access_token = None
              /\ cnt[t].post = 1
              /\ pc[t] \in {"str_post", "done"}
        /\ (loc[t].reply.kind = "raise"
             \/ (loc[t].reply.kind = "status" /\ loc[t].reply.status \notin {200, 201}))
           => /\ pc[t] = "done"
              /\ resp[t].code = 200
              /\ loc[t].result.returned
              /\ loc[t].result.error = <<>>
              /\ loc[t].result.reply_attempted
              /\ ~loc[t].result.reply_sent

\* C14 witness: the pipeline raised on a well-formed activity and
\* process_fastapi_request returned None to the route handler.
C14_Witness ==
    \E t \in Tasks :
        /\ Answered(t, "messages")
        /\ req[t].body.kind = "object"
        /\ cnt[t].framework = 1
        /\ loc[t].framework = "raise"
        /\ loc[t].res = None

\* C15: when APP_ID and APP_PASSWORD are not both set, the cache never holds
\* a token, and every call of get_bot_access_token returns None without a
\* request to the token endpoint: no task ever waits for that endpoint, and
\* a task past the call has no token and issued no token request.
C15_NoCredentialsNoTokenRequest ==
    (config.APP_ID = "" \/ config.APP_PASSWORD = "")
    => /\ _bot_access_token = None
       /\ \A t \in Tasks :
             /\ pc[t] # "gbat_post"
             /\ cnt[t].token = 0
             /\ (pc[t] = "str_post" \/ loc[t].result.reply_attempted)
                => /\ loc[t].token_source = "nocreds"
                   /\ loc[t].access_token = None

\* C15 witness: only APP_ID is set, and a call of get_bot_access_token has
\* returned None without a token request.
C15_Witness ==
    \E t \in Tasks :
        /\ config.APP_ID = "app-id" /\ config.APP_PASSWORD = ""
        /\ pc[t] = "str_post"
        /\ loc[t].token_source = "nocreds"
        /\ loc[t].access_token = None
        /\ cnt[t].token = 0

\* C16: when get_bot_access_token had no token to return (credentials
\* missing, the token endpoint answered another status than 200 or raised,
\* or its 200 answer carried no token), send_teams_reply still issues its
\* one reply POST, without an Authorization header; when it returned a
\* token, from the cache or freshly fetched, the POST carries exactly that
\* token as the bearer credential.
C16_ReplyPostedWithOrWithoutToken ==
    \A t \in Tasks :
        /\ loc[t].token_source \in {"nocreds", "failed"}
           => /\ cnt[t].post = 1
              /\ loc[t].post.url # <<>>
              /\ loc[t].access_token = None
              /\ loc[t].post.authorization = None
        /\ loc[t].token_source \in {"cache", "fetch"}
           => /\ cnt[t].post = 1
              /\ loc[t].post.url # <<>>
              /\ loc[t].access_token \in {None, ""}
                 => loc[t].post.authorization = None
              /\ loc[t].access_token \notin {None, ""}
                 => loc[t].post.authorization = loc[t].access_token
        /\ cnt[t].post = 1 => loc[t].token_source # "none"

\* C16 witness: the token request failed and the reply POST is in flight
\* without an Authorization header.
C16_Witness ==
    \E t \in Tasks :
        /\ pc[t] = "str_post"
        /\ loc[t].token_source = "failed"
        /\ cnt[t].token = 1
        /\ cnt[t].post = 1
        /\ loc[t].post.authorization = None

\* The lifetime a 200 token response states, 3600 when it states none.
Lifetime(r) == IF r.expires_in.present THEN r.expires_in.value ELSE 3600

C18_OnlyIssuedUnexpiredTokensUsed ==
    /\ [](\A t \in Tasks :
             /\ loc[t].access_token # None
                => /\ loc[t].token_source \in {"fetch", "cache"}
                   /\ loc[t].access_token \notin {Absent, ""}
                   /\ cnt[t].post = 1
                   /\ loc[t].post.authorization = loc[t].access_token
                   /\ loc[t].token_source = "fetch" <=> cnt[t].token = 1
             /\ loc[t].access_token = None => loc[t].post.authorization = None)
    /\ [][\A t \in Tasks :
             /\ (pc[t] = "gbat_post" /\ loc'[t].access_token # None)
                => /\ stored'.response.status = 200
                   /\ loc'[t].access_token = stored'.response.access_token
                   /\ loc'[t].token_source = "fetch"
             /\ (GetTokenCall(t) /\ loc'[t].access_token # None)
                => /\ loc'[t].token_source = "cache"
                   /\ loc'[t].access_token = _bot_access_token
                   /\ stored.response.status = 200
                   /\ _bot_access_token = stored.response.access_token
                   /\ now < _token_expires_at
             /\ pc[t] = "str_post"
                => /\ loc'[t].access_token = loc[t].access_token
                   /\ loc'[t].post = loc[t].post]_vars

\* C18 witness: two token requests raced and the second answer replaced the
\* token the first had stored; each task's reply POST carries the token its
\* own request fetched.
C18_Witness ==
    /\ pc["task1"] = "str_post" /\ pc["task2"] = "str_post"
    /\ loc["task1"].token_source = "fetch" /\ loc["task2"].token_source = "fetch"
    /\ loc["task1"].post.authorization = "tokenA"
    /\ loc["task2"].post.authorization = "tokenB"
    /\ _bot_access_token = "tokenB"

\* C19: in development mode with TEAMS_REPLY_ENABLED off, a POST of a
\* message activity with a non-empty text to /api/messages issues no token
\* request and no reply POST at any point, and is answered 200 with the
\* activity's text as user_message and reply_sent false, whether the chat
\* completion returned or raised.
C19_RepliesDisabledNothingSent ==
    \A t \in Tasks :
        ( /\ req[t].endpoint = "messages"
          /\ config.DEVELOPMENT_MODE /\ ~config.TEAMS_REPLY_ENABLED
          /\ MessageActivity(t) )
        => /\ pc[t] \in {"htm_model", "done"}
           /\ cnt[t].token = 0
           /\ cnt[t].post = 0
           /\ pc[t] = "done"
              => /\ resp[t].code = 200
                 /\ resp[t].user_message = req[t].body.text
                 /\ ~resp[t].reply_sent
                 /\ ~loc[t].result.reply_attempted

\* C19 witness: with replies disabled, the activity of the specification's
\* example was answered 200 with its text echoed and reply_sent false, and
\* nothing was sent to the channel.
C19_Witness ==
    \E t \in Tasks :
        /\ Answered(t, "messages")
        /\ config.DEVELOPMENT_MODE /\ ~config.TEAMS_REPLY_ENABLED
        /\ req[t].body = Activity("message", "hello", "c1", "a1", "https://x/")
        /\ loc[t].model = "ok"
        /\ resp[t].code = 200
        /\ resp[t].user_message = "hello"
        /\ ~resp[t].reply_sent
        /\ cnt[t].token = 0 /\ cnt[t].post = 0

\* C20: with TEAMS_REPLY_ENABLED on, once the chat completion has returned
\* for a message activity that carries serviceUrl S, conversation id C and
\* id A, the request is on its way to the reply POST; as soon as the token
\* was looked up, exactly one reply POST has gone out, to S followed by
\* v3/conversations/C/activities/A, carrying an activity of type "message"
\* whose text is the reply computed for that request (the text the HTTP
\* response reports as bot_response) and whose replyToId is A.
C20_ReplyAddressedToActivity ==
    \A t \in Tasks :
        ( /\ req[t].endpoint = "messages"
          /\ config.TEAMS_REPLY_ENABLED
          /\ MessageActivity(t)
          /\ req[t].body.serviceUrl \notin {Absent, None, ""}
          /\ req[t].body.conversation \notin {Absent, None, ""}
          /\ req[t].body.id \notin {Absent, None, ""}
          /\ loc[t].model = "ok" )
        => /\ pc[t] \in {"gbat_post", "str_post", "done"}
           /\ pc[t] = "gbat_post" => cnt[t].post = 0
           /\ pc[t] # "gbat_post"
              => /\ cnt[t].post = 1
                 /\ loc[t].post.url =
                       <<req[t].body.serviceUrl, "v3/conversations/",
                         req[t].body.conversation, "/activities/", req[t].body.id>>
                 /\ loc[t].post.type = "message"
                 /\ loc[t].post.replyToId = req[t].body.id
                 /\ loc[t].post.text = loc[t].bot_response
                 /\ loc[t].post.text # <<>>
           /\ pc[t] = "done"
              => /\ loc[t].result.reply_attempted
                 /\ resp[t].bot_response = loc[t].post.text

\* C20 witness: the reply to activity a1 of conversation c1 is in flight to
\* https://x/v3/conversations/c1/activities/a1 with replyToId a1.
C20_Witness ==
    \E t \in Tasks :
        /\ config.TEAMS_REPLY_ENABLED
        /\ pc[t] = "str_post"
        /\ loc[t].post.url =
              <<"https://x/", "v3/conversations/", "c1", "/activities/", "a1">>
        /\ loc[t].post.replyToId = "a1"
        /\ loc[t].post.type = "message"
        /\ loc[t].post.text = <<"h", "i">>

\* C21: every answer of GET /health has status 200 and reports
\* development_mode and teams_reply_enabled equal to the settings,
\* bot_credentials_configured true exactly when BOT_ID and BOT_PASSWORD are
\* both set to a non-empty text, and the authentication feature as enabled
\* exactly when development mode is off; no step of any request changes
\* the settings or the environment the report is computed from, so the
\* report is the same before and after any sequence of requests.
C21_HealthReportsSettings ==
    /\ [](\A t \in Tasks :
             Answered(t, "health")
             => /\ resp[t].code = 200
                /\ resp[t].health.development_mode = config.DEVELOPMENT_MODE
                /\ resp[t].health.teams_reply_enabled = config.TEAMS_REPLY_ENABLED
                /\ resp[t].health.bot_credentials_configured
                   <=> /\ env.BOT_ID \notin {Absent, ""}
                       /\ env.BOT_PASSWORD \notin {Absent, ""}
                /\ resp[t].health.authentication = "enabled"
                   <=> ~config.DEVELOPMENT_MODE
                /\ resp[t].health.authentication \in {"enabled", "disabled (dev mode)"}
                /\ cnt[t] = NoCalls)
    /\ [][config' = config /\ env' = env /\ bot_app' = bot_app]_vars

\* C21 witness: after an earlier request, /health reports that the
\* credentials are not configured because only BOT_ID is set.
C21_Witness ==
    \E t \in Tasks :
        /\ Answered(t, "health")
        /\ requests = 2
        /\ env.BOT_ID = "app-id" /\ env.BOT_PASSWORD = ""
        /\ ~resp[t].health.bot_credentials_configured
        /\ resp[t].health.development_mode = config.DEVELOPMENT_MODE

\* C22: when OPENAI_API_KEY is not set, startup ends in the failed state
\* while config.py runs: the settings are never constructed, the framework
\* application is never built, the listener is never started, and no
\* request is ever accepted or answered.
C22_NoKeyNoListener ==
    env.OPENAI_API_KEY = Absent
    => /\ phase \in {"starting", "failed"}
       /\ config = Unconfigured
       /\ bot_app = None
       /\ requests = 0
       /\ \A t \in Tasks : pc[t] = "idle" /\ resp[t].code = 0

\* C22 witness: without the key, startup has failed.
C22_Witness ==
    /\ env.OPENAI_API_KEY = Absent
    /\ phase = "failed"
    /\ requests = 0

\* C23: once the settings are constructed, DEVELOPMENT_MODE of the settings
\* is true exactly when the environment variable is unset or is the word
\* "true" in any letter case, and TEAMS_REPLY_ENABLED is true exactly when
\* the variable is set to the word "true" in any letter case; every other
\* value (another word, the empty text, "true" with a blank) gives false.
C23_FlagsParsedCaseInsensitively ==
    phase \notin {"starting", "failed"}
    => /\ config.DEVELOPMENT_MODE
            <=> \/ ~env.DEVELOPMENT_MODE.set
                \/ /\ Len(env.DEVELOPMENT_MODE.value) = 4
                   /\ env.DEVELOPMENT_MODE.value[1] \in {"t", "T"}
                   /\ env.DEVELOPMENT_MODE.value[2] \in {"r", "R"}
                   /\ env.DEVELOPMENT_MODE.value[3] \in {"u", "U"}
                   /\ env.DEVELOPMENT_MODE.value[4] \in {"e", "E"}
       /\ config.TEAMS_REPLY_ENABLED
            <=> /\ env.TEAMS_REPLY_ENABLED.set
                /\ Len(env.TEAMS_REPLY_ENABLED.value) = 4
                /\ env.TEAMS_REPLY_ENABLED.value[1] \in {"t", "T"}
                /\ env.TEAMS_REPLY_ENABLED.value[2] \in {"r", "R"}
                /\ env.TEAMS_REPLY_ENABLED.value[3] \in {"u", "U"}
                /\ env.TEAMS_REPLY_ENABLED.value[4] \in {"e", "E"}

\* C23 witness: the service runs with DEVELOPMENT_MODE=True (mixed case,
\* read as true) and TEAMS_REPLY_ENABLED="true " (trailing blank, read as
\* false).
C23_Witness ==
    /\ phase = "listening"
    /\ env.DEVELOPMENT_MODE = Text(<<"T", "r", "u", "e">>)
    /\ config.DEVELOPMENT_MODE
    /\ env.TEAMS_REPLY_ENABLED = Text(<<"t", "r", "u", "e", " ">>)
    /\ ~config.TEAMS_REPLY_ENABLED

C25_ModelBeforeDelivery ==
    \A t \in Tasks :
        req[t].endpoint = "messages"
        => /\ pc[t] = "htm_model"
              => cnt[t].model = 1 /\ cnt[t].token = 0 /\ cnt[t].post = 0
           /\ (cnt[t].token > 0 \/ cnt[t].post > 0 \/ pc[t] \in {"gbat_post", "str_post"})
              => cnt[t].model = 1 /\ loc[t].model = "ok"
           /\ loc[t].model = "raise"
              => /\ pc[t] = "done"
                 /\ cnt[t].model = 1
                 /\ cnt[t].token = 0
                 /\ cnt[t].post = 0
                 /\ cnt[t].writes = 0
                 /\ loc[t].post = NoPost
                 /\ loc[t].result.returned
                 /\ loc[t].result.bot_response
                       = <<"Teams OpenAI error: ">> \o loc[t].completion
                 /\ loc[t].completion # <<>>
                 /\ loc[t].result.reply_sent = FALSE
                 /\ loc[t].result.reply_attempted = FALSE

\* C25 witness: replies are enabled and the activity carries all three ids,
\* so a reply would have been sent, but the chat completion raised.
C25_Witness ==
    \E t \in Tasks :
        /\ Answered(t, "messages")
        /\ config.TEAMS_REPLY_ENABLED
        /\ MessageActivity(t)
        /\ Truthy(loc[t].service_url) /\ Truthy(loc[t].conversation_id)
        /\ Truthy(loc[t].activity_id)
        /\ loc[t].model = "raise"
        /\ cnt[t].token = 0 /\ cnt[t].post = 0
        /\ ~loc[t].result.reply_attempted

\* C26: in every state, under every interleaving of the tasks, the cached
\* token and the cached expiry are both cleared (token None, expiry 0) or
\* are the access_token and the expiry current_time + expires_in - 60 of
\* one and the same 200 token response.
C26_Original ==
    \/ _bot_access_token = None /\ _token_expires_at = 0
    \/ /\ stored.response.status = 200
       /\ _bot_access_token
             = (IF stored.response.access_token = Absent THEN None
                ELSE stored.response.access_token)
       /\ _token_expires_at
             = stored.current_time
                 + (IF stored.response.expires_in.present
                    THEN stored.response.expires_in.value ELSE 3600)
                 - 60

\* C27: a request to /api/messages or /api/test whose own external calls
\* each eventually return or raise is eventually answered, whatever the
\* other requests in flight do, also when their external calls never
\* return; and it is answered exactly once: a response is produced only by
\* the step in which its handler finishes, that response has an HTTP
\* status, and it stays as it is until the server has sent it.
C27_EveryRequestAnsweredOnce ==
    /\ \A t \in Tasks :
          WF_vars(Returns(t))
          => /\ (pc[t] \notin {"idle", "done"}) ~> (pc[t] = "done")
             /\ (pc[t] = "done") ~> (pc[t] = "idle")
    /\ [](\A t \in Tasks :
             /\ pc[t] = "done" <=> resp[t].code # 0
             /\ pc[t] = "done" => resp[t].code \in {200, 400, 500})
    /\ [][\A t \in Tasks :
             resp'[t] # resp[t]
             => \/ pc[t] # "done" /\ pc'[t] = "done"
                \/ pc[t] = "done" /\ pc'[t] = "idle" /\ resp'[t].code = 0]_vars

\* C27 witness: a request was answered while the other task still waits for
\* its token request, which it started first.
C27_Witness ==
    /\ pc["task1"] = "gbat_post"
    /\ Answered("task2", "messages")
    /\ cnt["task2"].post = 1
    /\ resp["task2"].code = 200

====
